---- MODULE Spec2Model ----
(***************************************************************************)
(* Model of Simple_Stop_Loss_Optimizer.py: main() hands a DataFrame and    *)
(* the sorted percentile list to analyze_stop_loss(), which filters the    *)
(* valid rows, computes the baseline, and for every percentile resolves an *)
(* MAE threshold, replays every valid trade against it, records a result   *)
(* row and finally selects the result with the greatest total profit.      *)
(*                                                                         *)
(* Numbers.  MAE, Shares, Price and Profit cells are integers here, for    *)
(* which double addition and multiplication are exact.  Money amounts      *)
(* (simulated_profit_total, baseline_total_profit, delta) are held in      *)
(* hundredths of the currency unit, so that the code's "/ 100.0" of a      *)
(* stopped trade is the exact rational.  The percentile index              *)
(* int(len * (pct / 100.0)) is computed as the code computes it, in        *)
(* IEEE-754 binary64 with round-to-nearest-even, on 13-bit limbs.          *)
(***************************************************************************)
EXTENDS Integers, Sequences, FiniteSets, Bags, TLC

\* ------------------------------------------------------------------ bounds
MaxRows == 2          \* rows of an exhaustively enumerated DataFrame
MaxPcts == 2          \* percentiles given on the command line
LadderLen == 90       \* rows of the one large DataFrame

\* ------------------------------------------------------- input value sets
MaeValues    == {-5, -1}
SharesValues == {100, -50}
PriceValues  == {20}
ProfitValues == {-15, 15}
Percentiles  == {0, 50, 70, 100, 150}

required_cols == {"MAE", "Shares", "Price", "Profit"}

\* A cell after pd.to_numeric(errors='coerce'): <<v>> is the number v,
\* <<>> is NaN.
NaN == <<>>
notna(c) == c # NaN

Cells(S) == {<<v>> : v \in S}

Rows == [MAE : Cells(MaeValues) \cup {NaN}, Shares : Cells(SharesValues),
         Price : Cells(PriceValues), Profit : Cells(ProfitValues)]

SeqsUpTo(S, n) == UNION {[1..k -> S] : k \in 0..n}

LadderRow(i) == [MAE |-> <<0 - i>>, Shares |-> <<100>>, Price |-> <<20>>,
                 Profit |-> <<IF i % 2 = 1 THEN 15 ELSE -15>>]

LadderFrame == [i \in 1..LadderLen |-> LadderRow(i)]

DataFrames == SeqsUpTo(Rows, MaxRows) \cup {LadderFrame}

\* ------------------------------------------------- binary64 index product
RECURSIVE Pow2(_)
Pow2(k) == IF k = 0 THEN 1 ELSE 2 * Pow2(k - 1)

LimbBits == 13
LimbBase == Pow2(LimbBits)

\* a / 100 = f * 2^-NormShift(a) with 1 <= f < 2, for 1 <= a < 200
RECURSIVE NormShift(_)
NormShift(a) == IF a >= 100 THEN 0 ELSE 1 + NormShift(2 * a)

\* k limbs of the fraction r / 100, followed by the last remainder
RECURSIVE QuotLimbs(_, _)
QuotLimbs(r, k) ==
    IF k = 0 THEN <<r>>
    ELSE <<(r * LimbBase) \div 100>> \o QuotLimbs((r * LimbBase) % 100, k - 1)

\* limbs + c, most significant limb first, the carry out prepended
RECURSIVE AddLimbs(_, _)
AddLimbs(limbs, c) ==
    IF limbs = <<>> THEN <<c>>
    ELSE LET t == limbs[Len(limbs)] + c
         IN  AddLimbs(SubSeq(limbs, 1, Len(limbs) - 1), t \div LimbBase)
                 \o <<t % LimbBase>>

\* limbs * n + c, most significant limb first, the carry out prepended
RECURSIVE MulLimbs(_, _, _)
MulLimbs(limbs, n, c) ==
    IF limbs = <<>> THEN <<c>>
    ELSE LET t == limbs[Len(limbs)] * n + c
         IN  MulLimbs(SubSeq(limbs, 1, Len(limbs) - 1), n, t \div LimbBase)
                 \o <<t % LimbBase>>

RECURSIVE BitLen(_)
BitLen(t) == IF t <= 1 THEN 0 ELSE 1 + BitLen(t \div 2)

\* pct / 100.0 for 1 <= a < 200: the 53-bit significand of RN(a / 100) as
\* <<top, d1, d2, d3, d4>> (top * 2^52 + four 13-bit limbs), scaled by
\* 2^-(52 + shift)
FloatQuot(a) ==
    LET s  == NormShift(a)
        q  == QuotLimbs(a * Pow2(s) - 100, 4)
        r  == q[5]
        up == (2 * r > 100) \/ (2 * r = 100 /\ q[4] % 2 = 1)
        m  == AddLimbs(SubSeq(q, 1, 4), IF up THEN 1 ELSE 0)
    IN  [shift |-> s, mant |-> <<1 + m[1]>> \o SubSeq(m, 2, 5)]

\* int(n * (a / 100.0)) for n >= 1, 1 <= a < 200: the product is rounded to
\* 53 bits (ties to even) and then truncated
FloatMulInt(n, a) ==
    LET q    == FloatQuot(a)
        prod == MulLimbs(SubSeq(q.mant, 2, 5), n, 0)
        top  == n * q.mant[1] + prod[1]
        k    == BitLen(top)
        low  == prod[5]
        drop == low % Pow2(k)
        even == (low \div Pow2(k)) % 2 = 0
        up   == k > 0 /\ (2 * drop > Pow2(k) \/ (2 * drop = Pow2(k) /\ ~even))
        rnd  == AddLimbs(<<prod[2], prod[3], prod[4], low - drop>>,
                         IF up THEN Pow2(k) ELSE 0)
    IN  (top + rnd[1]) \div Pow2(q.shift)

\* int(len(mae_sorted) * (pct / 100.0)); int() truncates toward zero
IntOfProduct(n, pct) ==
    IF pct = 0 THEN 0
    ELSE IF pct > 0 THEN FloatMulInt(n, pct)
    ELSE 0 - FloatMulInt(n, 0 - pct)

Max(a, b) == IF a >= b THEN a ELSE b

\* threshold_idx = max(0, int(len(mae_sorted) * (pct / 100.0)) - 1)
ThresholdIdxNoMinusOne(n, pct) == Max(0, IntOfProduct(n, pct))
ThresholdIdx(n, pct) == Max(0, IntOfProduct(n, pct) - 1)

\* ------------------------------------------------------------ sorting
\* The stable ascending sort: the element at position i moves to position
\* Rank(s, i)
Rank(s, i) ==
    1 + Cardinality({j \in 1..Len(s) : s[j] < s[i] \/ (s[j] = s[i] /\ j < i)})

StableSort(s) ==
    LET rank == [i \in 1..Len(s) |-> Rank(s, i)]
    IN  [k \in 1..Len(s) |-> s[CHOOSE i \in 1..Len(s) : rank[i] = k]]

\* sorted(args.thresholds)
SortedIdentity(pcts) == pcts
sorted(pcts) == StableSort(pcts)

\* mae_valid.sort_values(): ascending, most negative first
Reverse(s) == [k \in 1..Len(s) |-> s[Len(s) + 1 - k]]

SortDescending(mae) == Reverse(StableSort(mae))
sort_values(mae) == StableSort(mae)

\* --------------------------------------------------------- validation
\* valid_mask: all four required cells are numeric
ValidRow(row) ==
    notna(row.MAE) /\ notna(row.Shares) /\ notna(row.Price) /\ notna(row.Profit)

\* df.index[valid_mask].tolist(), here 1-based row positions
ValidIndices(frm) ==
    SelectSeq([i \in 1..Len(frm) |-> i], LAMBDA i : ValidRow(frm[i]))

\* profit_valid.sum(), in hundredths
RECURSIVE ProfitSumRange(_, _, _, _)
ProfitSumRange(frm, idxs, lo, hi) ==
    IF lo > hi THEN 0
    ELSE IF lo = hi THEN 100 * frm[idxs[lo]].Profit[1]
    ELSE LET mid == (lo + hi) \div 2
         IN  ProfitSumRange(frm, idxs, lo, mid) + ProfitSumRange(frm, idxs, mid + 1, hi)

ProfitSum(frm, idxs) == ProfitSumRange(frm, idxs, 1, Len(idxs))

\* ------------------------------------------------------------- replay
\* if actual_mae < mae_threshold
StoppedOrEqual(actual_mae, threshold) == actual_mae <= threshold
IsStopped(actual_mae, threshold) == actual_mae < threshold

\* simulated_loss = shares * entry_price * mae_threshold / 100.0, in hundredths
SimulatedLossPerShare(shares, entry_price, threshold) == shares * threshold
SimulatedLoss(shares, entry_price, threshold) == shares * entry_price * threshold

RECURSIVE ArgMaxLast(_, _, _)
ArgMaxLast(results, i, best) ==
    IF i > Len(results) THEN best
    ELSE IF results[i].total_profit >= results[best].total_profit
         THEN ArgMaxLast(results, i + 1, i)
         ELSE ArgMaxLast(results, i + 1, best)

\* max(stop_loss_results, key=lambda x: x['total_profit']): the position of
\* the first result that no earlier or later one beats
RECURSIVE ArgMax(_, _, _)
ArgMax(results, i, best) ==
    IF i > Len(results) THEN best
    ELSE IF results[i].total_profit > results[best].total_profit
         THEN ArgMax(results, i + 1, i)
         ELSE ArgMax(results, i + 1, best)

Abs(x) == IF x < 0 THEN 0 - x ELSE x

\* best_result['delta'] / abs(baseline_total_profit) * 100 on numpy float64
\* scalars: a zero divisor gives nan or a signed infinity, not an exception
ImprovementPct(delta, baseline) ==
    IF baseline # 0 THEN [kind |-> "finite", num |-> 100 * delta, den |-> Abs(baseline)]
    ELSE IF delta = 0 THEN [kind |-> "nan", num |-> 0, den |-> 0]
    ELSE IF delta > 0 THEN [kind |-> "+inf", num |-> 0, den |-> 0]
    ELSE [kind |-> "-inf", num |-> 0, den |-> 0]

\* -------------------------------------------------------------- state
VARIABLES
    args_thresholds,         \* args.thresholds, in command-line order
    df,                      \* the loaded DataFrame's rows
    df_columns,              \* the loaded DataFrame's column names
    pc,                      \* position in main / analyze_stop_loss
    threshold_pcts,          \* the list analyze_stop_loss receives
    valid_indices,
    mae_sorted,
    baseline_total_profit,
    baseline_trade_count,
    pct_pos,                 \* position of `for pct in threshold_pcts`
    threshold_idx,
    mae_threshold,
    idx_pos,                 \* position of `for idx in valid_indices`
    simulated_profit_total,
    stopped_count,
    win_count,
    stop_loss_results,
    best_result,
    improvement_pct,
    printed_error,           \* the "ERROR: No valid data found" line was printed
    raised,                  \* the exception main() caught, or "none"
    exit_code                \* main()'s return value, -1 while running

vars == <<args_thresholds, df, df_columns, pc, threshold_pcts, valid_indices,
          mae_sorted, baseline_total_profit, baseline_trade_count, pct_pos,
          threshold_idx, mae_threshold, idx_pos, simulated_profit_total,
          stopped_count, win_count, stop_loss_results, best_result,
          improvement_pct, printed_error, raised, exit_code>>

inputs == <<args_thresholds, df, df_columns>>
frame  == <<valid_indices, mae_sorted, baseline_total_profit, baseline_trade_count>>
accum  == <<simulated_profit_total, stopped_count, win_count>>
outcome == <<best_result, improvement_pct, printed_error>>

None == [none |-> TRUE]

Init ==
    /\ args_thresholds \in SeqsUpTo(Percentiles, MaxPcts)
    /\ \/ df \in DataFrames /\ df_columns = required_cols
       \/ df = <<>> /\ df_columns = required_cols \ {"MAE"}
    /\ pc = "main"
    /\ threshold_pcts = <<>>
    /\ valid_indices = <<>>
    /\ mae_sorted = <<>>
    /\ baseline_total_profit = 0
    /\ baseline_trade_count = 0
    /\ pct_pos = 0
    /\ threshold_idx = 0
    /\ mae_threshold = 0
    /\ idx_pos = 0
    /\ simulated_profit_total = 0
    /\ stopped_count = 0
    /\ win_count = 0
    /\ stop_loss_results = <<>>
    /\ best_result = None
    /\ improvement_pct = None
    /\ printed_error = FALSE
    /\ raised = "none"
    /\ exit_code = -1

\* main(): analyze_stop_loss(df, sorted(args.thresholds)) is entered
Main ==
    /\ pc = "main"
    /\ threshold_pcts' = sorted(args_thresholds)
    /\ pc' = "validate"
    /\ UNCHANGED <<inputs, frame, pct_pos, threshold_idx, mae_threshold, idx_pos,
                   accum, stop_loss_results, outcome, raised, exit_code>>

MaeOf(frm, idxs) == [k \in 1..Len(idxs) |-> frm[idxs[k]].MAE[1]]

\* analyze_stop_loss, from the column check to the sorted MAE values
Validate ==
    /\ pc = "validate"
    /\ IF required_cols \ df_columns # {}
       THEN \* raise ValueError, caught by main(): return 1
            /\ raised' = "ValueError"
            /\ exit_code' = 1
            /\ pc' = "done"
            /\ UNCHANGED <<frame, printed_error>>
       ELSE LET vi == ValidIndices(df) IN
            IF Len(vi) = 0
            THEN \* print the error line and return; main() returns 0
                 /\ printed_error' = TRUE
                 /\ exit_code' = 0
                 /\ pc' = "done"
                 /\ UNCHANGED <<frame, raised>>
            ELSE /\ valid_indices' = vi
                 /\ baseline_total_profit' = ProfitSum(df, vi)
                 /\ baseline_trade_count' = Len(vi)
                 /\ mae_sorted' = sort_values(MaeOf(df, vi))
                 /\ pc' = "for_pct"
                 /\ UNCHANGED <<printed_error, raised, exit_code>>
    /\ pct_pos' = 1
    /\ UNCHANGED <<inputs, threshold_pcts, threshold_idx, mae_threshold, idx_pos,
                   accum, stop_loss_results, best_result, improvement_pct>>

\* for pct in threshold_pcts: the threshold lookup and the accumulators' reset
ResolveThreshold ==
    /\ pc = "for_pct"
    /\ pct_pos <= Len(threshold_pcts)
    /\ LET i == ThresholdIdx(Len(mae_sorted), threshold_pcts[pct_pos]) IN
       /\ threshold_idx' = i
       /\ IF i >= Len(mae_sorted)
          THEN \* mae_sorted.iloc[i] raises IndexError, caught by main()
               /\ raised' = "IndexError"
               /\ exit_code' = 1
               /\ pc' = "done"
               /\ UNCHANGED <<mae_threshold, idx_pos, accum>>
          ELSE /\ mae_threshold' = mae_sorted[i + 1]
               /\ simulated_profit_total' = 0
               /\ stopped_count' = 0
               /\ win_count' = 0
               /\ idx_pos' = 1
               /\ pc' = "for_idx"
               /\ UNCHANGED <<raised, exit_code>>
    /\ UNCHANGED <<inputs, threshold_pcts, frame, pct_pos, stop_loss_results,
                   outcome>>

\* for idx in valid_indices: one trade of the replay
ReplayTrade ==
    /\ pc = "for_idx"
    /\ idx_pos <= Len(valid_indices)
    /\ LET idx           == valid_indices[idx_pos]
           actual_mae    == df[idx].MAE[1]
           actual_profit == 100 * df[idx].Profit[1]
           shares        == df[idx].Shares[1]
           entry_price   == df[idx].Price[1]
           simulated_loss == SimulatedLoss(shares, entry_price, mae_threshold)
       IN  IF IsStopped(actual_mae, mae_threshold)
           THEN /\ simulated_profit_total' = simulated_profit_total + simulated_loss
                /\ stopped_count' = stopped_count + 1
                /\ win_count' = IF simulated_loss > 0 THEN win_count + 1 ELSE win_count
           ELSE /\ simulated_profit_total' = simulated_profit_total + actual_profit
                /\ win_count' = IF actual_profit > 0 THEN win_count + 1 ELSE win_count
                /\ UNCHANGED stopped_count
    /\ idx_pos' = idx_pos + 1
    /\ UNCHANGED <<inputs, pc, threshold_pcts, frame, pct_pos, threshold_idx,
                   mae_threshold, stop_loss_results, outcome, raised, exit_code>>

\* the end of one percentile's body: delta, win rate and the result row
RecordResult ==
    /\ pc = "for_idx"
    /\ idx_pos > Len(valid_indices)
    /\ stop_loss_results' = Append(stop_loss_results,
            [mae_threshold |-> mae_threshold,
             percentile    |-> threshold_pcts[pct_pos],
             total_profit  |-> simulated_profit_total,
             delta         |-> simulated_profit_total - baseline_total_profit,
             stopped_count |-> stopped_count,
             win_rate      |-> <<100 * win_count, baseline_trade_count>>])
    /\ pct_pos' = pct_pos + 1
    /\ pc' = "for_pct"
    /\ UNCHANGED <<inputs, threshold_pcts, frame, threshold_idx, mae_threshold,
                   idx_pos, accum, outcome, raised, exit_code>>

\* after the loop: the best result and its improvement over the baseline
SelectBest ==
    /\ pc = "for_pct"
    /\ pct_pos > Len(threshold_pcts)
    /\ IF stop_loss_results = <<>>
       THEN \* max() of an empty list raises ValueError, caught by main()
            /\ raised' = "ValueError"
            /\ exit_code' = 1
            /\ UNCHANGED <<best_result, improvement_pct>>
       ELSE LET best == stop_loss_results[ArgMax(stop_loss_results, 1, 1)] IN
            /\ best_result' = best
            /\ improvement_pct' = ImprovementPct(best.delta, baseline_total_profit)
            /\ exit_code' = 0
            /\ UNCHANGED raised
    /\ pc' = "done"
    /\ UNCHANGED <<inputs, threshold_pcts, frame, pct_pos, threshold_idx,
                   mae_threshold, idx_pos, accum, stop_loss_results, printed_error>>

Next ==
    \/ Main
    \/ Validate
    \/ ResolveThreshold
    \/ ReplayTrade
    \/ RecordResult
    \/ SelectBest

Spec == Init /\ [][Next]_vars

\* ================================================================ claims
\* The valid trade set, read off the DataFrame: rows whose four cells are
\* all numeric.
ValidTradeSet ==
    {i \in 1..Len(df) : /\ df[i].MAE # <<>> /\ df[i].Shares # <<>>
                        /\ df[i].Price # <<>> /\ df[i].Profit # <<>>}

TradeCount == Cardinality(ValidTradeSet)

InRange(p) == p > 0 /\ p <= 100

\* max(0, floor(n * p / 100) - 1) in exact arithmetic
FloorIndex(n, p) ==
    IF (n * p) \div 100 - 1 > 0 THEN (n * p) \div 100 - 1 ELSE 0

CountBelow(v)  == Cardinality({i \in ValidTradeSet : df[i].MAE[1] < v})
CountAtMost(v) == Cardinality({i \in ValidTradeSet : df[i].MAE[1] <= v})

\* v stands at 0-based index k of the valid MAE values sorted ascending
IsOrderStatistic(v, k) == CountBelow(v) <= k /\ k < CountAtMost(v)

OccursInData(v) == \E i \in ValidTradeSet : df[i].MAE[1] = v

\* the simulated outcome of row i under threshold thr, in hundredths
Outcome(i, thr) ==
    IF df[i].MAE[1] < thr
    THEN df[i].Shares[1] * df[i].Price[1] * thr
    ELSE 100 * df[i].Profit[1]

RECURSIVE OutcomeSum(_, _, _, _)
OutcomeSum(S, thr, lo, hi) ==
    IF lo > hi THEN 0
    ELSE IF lo = hi THEN (IF lo \in S THEN Outcome(lo, thr) ELSE 0)
    ELSE LET mid == (lo + hi) \div 2
         IN  OutcomeSum(S, thr, lo, mid) + OutcomeSum(S, thr, mid + 1, hi)

RECURSIVE ActualProfitSum(_, _, _)
ActualProfitSum(S, lo, hi) ==
    IF lo > hi THEN 0
    ELSE IF lo = hi THEN (IF lo \in S THEN 100 * df[lo].Profit[1] ELSE 0)
    ELSE LET mid == (lo + hi) \div 2
         IN  ActualProfitSum(S, lo, mid) + ActualProfitSum(S, mid + 1, hi)

ThresholdResolved == pc = "for_idx"
ReplayFinished == pc = "for_idx" /\ idx_pos > Len(valid_indices)
CurrentPct == threshold_pcts[pct_pos]

CompletedNormally == pc = "done" /\ exit_code = 0 /\ ~printed_error

SeqToBag(s) == [x \in {s[k] : k \in 1..Len(s)} |->
                    Cardinality({k \in 1..Len(s) : s[k] = x})]

ResultPercentiles == [k \in 1..Len(stop_loss_results) |-> stop_loss_results[k].percentile]

\* C1: for a non-empty valid trade set of n trades and a percentile p in
\* (0, 100], the resolved threshold is the element at 0-based index
\* max(0, floor(n * p / 100) - 1) of the valid MAE values sorted ascending,
\* the index lies in 0..n-1 and the threshold occurs in the valid trade set.
C1_ThresholdAtFloorIndex ==
    (ThresholdResolved /\ InRange(CurrentPct)) =>
        /\ threshold_idx = FloorIndex(TradeCount, CurrentPct)
        /\ threshold_idx \in 0..(TradeCount - 1)
        /\ IsOrderStatistic(mae_threshold, FloorIndex(TradeCount, CurrentPct))
        /\ OccursInData(mae_threshold)

\* C2: the replay visits every valid trade exactly once; a trade with MAE
\* strictly below the threshold contributes shares * entry_price *
\* mae_threshold / 100, every other trade its actual profit; stopped_count
\* counts the stopped trades and win_count the strictly positive outcomes.
C2_ReplayTerms ==
    ThresholdResolved =>
        LET seen == {valid_indices[k] : k \in 1..(idx_pos - 1)} IN
        /\ idx_pos - 1 <= Len(valid_indices)
        /\ Cardinality(seen) = idx_pos - 1
        /\ seen \subseteq ValidTradeSet
        /\ (ReplayFinished => seen = ValidTradeSet)
        /\ simulated_profit_total = OutcomeSum(seen, mae_threshold, 1, Len(df))
        /\ stopped_count = Cardinality({i \in seen : df[i].MAE[1] < mae_threshold})
        /\ win_count = Cardinality({i \in seen : Outcome(i, mae_threshold) > 0})

C2_Witness ==
    /\ ReplayFinished
    /\ stopped_count >= 1
    /\ \E i \in ValidTradeSet : df[i].MAE[1] = mae_threshold /\ df[i].Profit[1] > 0
    /\ \E i \in ValidTradeSet : df[i].MAE[1] < mae_threshold /\ Outcome(i, mae_threshold) > 0

\* C3 as stated: a run produces one result per requested percentile, in the
\* order the percentiles were requested.
C3_RequestOrder ==
    CompletedNormally => ResultPercentiles = args_thresholds

\* C3 amended: a run that completes normally produces exactly one result per
\* requested percentile, in ascending percentile order (the order of the list
\* main hands to analyze_stop_loss), repeated percentiles and percentiles
\* resolving to the same threshold included.
C3_AscendingOrder ==
    /\ Len(stop_loss_results) <= Len(args_thresholds)
    /\ \A k \in 1..Len(stop_loss_results) :
           stop_loss_results[k].percentile = threshold_pcts[k]
    /\ \A j, k \in 1..Len(stop_loss_results) :
           j < k => stop_loss_results[j].percentile <= stop_loss_results[k].percentile
    /\ CompletedNormally =>
           /\ Len(stop_loss_results) = Len(args_thresholds)
           /\ SeqToBag(ResultPercentiles) = SeqToBag(args_thresholds)

C3_Witness ==
    /\ CompletedNormally
    /\ Len(args_thresholds) = 2
    /\ args_thresholds[1] > args_thresholds[2]
    /\ Len(stop_loss_results) = 2
    /\ stop_loss_results[1].mae_threshold = stop_loss_results[2].mae_threshold

\* C4: the selected best result has a total profit no less than every
\* result's of the run, and among the results that share the maximum it is
\* the first in the order supplied to the analysis.
C4_BestIsFirstMaximum ==
    best_result # None =>
        /\ \A k \in 1..Len(stop_loss_results) :
               best_result.total_profit >= stop_loss_results[k].total_profit
        /\ \E k \in 1..Len(stop_loss_results) :
               /\ best_result = stop_loss_results[k]
               /\ \A j \in 1..(k - 1) :
                      stop_loss_results[j].total_profit < stop_loss_results[k].total_profit

C4_Witness ==
    /\ best_result # None
    /\ Len(stop_loss_results) = 2
    /\ stop_loss_results[1].total_profit = stop_loss_results[2].total_profit
    /\ stop_loss_results[1].percentile # stop_loss_results[2].percentile
    /\ best_result.percentile = stop_loss_results[1].percentile

\* C5: a requested percentile outside (0, 100] makes the analysis fail with
\* an invalid-percentile error; no result row is produced for it.
C5_InvalidPercentileRejected ==
    /\ \A k \in 1..Len(stop_loss_results) : InRange(stop_loss_results[k].percentile)
    /\ (pc = "done" /\ TradeCount > 0 /\ df_columns = required_cols
            /\ \E k \in 1..Len(args_thresholds) : ~InRange(args_thresholds[k]))
        => exit_code = 1

\* C6: with an empty valid trade set the run ends in an error outcome, and no
\* baseline, threshold, replay or best-result computation is performed.
C6_EmptyValidDataIsError ==
    (pc = "done" /\ df_columns = required_cols /\ TradeCount = 0) =>
        /\ exit_code # 0
        /\ stop_loss_results = <<>>
        /\ best_result = None
        /\ baseline_trade_count = 0

\* C7: with a baseline total profit of exactly zero the best result's
\* percentage improvement is reported as undefined (NaN) and the run
\* completes without a crash.
C7_ZeroBaselineUndefined ==
    (pc = "done" /\ TradeCount > 0 /\ stop_loss_results # <<>>
         /\ Len(stop_loss_results) = Len(threshold_pcts)
         /\ ActualProfitSum(ValidTradeSet, 1, Len(df)) = 0) =>
        /\ exit_code = 0
        /\ improvement_pct # None
        /\ improvement_pct.kind = "nan"

C9_Monotone ==
    \A j, k \in 1..Len(stop_loss_results) :
        (/\ InRange(stop_loss_results[j].percentile)
         /\ InRange(stop_loss_results[k].percentile)
         /\ stop_loss_results[j].percentile < stop_loss_results[k].percentile)
        => /\ stop_loss_results[j].mae_threshold <= stop_loss_results[k].mae_threshold
           /\ stop_loss_results[j].stopped_count <= stop_loss_results[k].stopped_count

C9_Witness ==
    \E j, k \in 1..Len(stop_loss_results) :
        /\ InRange(stop_loss_results[j].percentile)
        /\ InRange(stop_loss_results[k].percentile)
        /\ stop_loss_results[j].percentile < stop_loss_results[k].percentile
        /\ stop_loss_results[j].mae_threshold < stop_loss_results[k].mae_threshold
        /\ stop_loss_results[j].stopped_count < stop_loss_results[k].stopped_count

\* C10: for a percentile p in (0, 100] on n valid trades, stopped_count is at
\* most max(0, floor(n * p / 100) - 1) and so less than n; the trades with
\* the greatest MAE are never stopped.
C10_NeverAllStopped ==
    (ThresholdResolved /\ InRange(CurrentPct)) =>
        /\ stopped_count <= FloorIndex(TradeCount, CurrentPct)
        /\ stopped_count < TradeCount
        /\ \A k \in 1..(idx_pos - 1) :
               (\A i \in ValidTradeSet : df[i].MAE[1] <= df[valid_indices[k]].MAE[1])
               => df[valid_indices[k]].MAE[1] >= mae_threshold

C10_Witness ==
    /\ ReplayFinished
    /\ CurrentPct = 100
    /\ TradeCount >= 2
    /\ stopped_count = TradeCount - 1

====
